---- MODULE Spec2Model ----
(***************************************************************************)
(* Model of src/caesar/src/caesar.rs: the function caesar(input, key, dir) *)
(* and its helpers calc_index_forward / calc_index_backward.               *)
(*                                                                         *)
(* A char is its Unicode scalar value (an integer), a string is a sequence *)
(* of chars.  i32 values are integers in I32Min..I32Max; the arithmetic of *)
(* the helpers is two's-complement wrapping i32 arithmetic and `%` is      *)
(* Rust's truncating remainder.  A usize is a non-negative integer.        *)
(***************************************************************************)
EXTENDS Integers, Sequences, FiniteSets, TLC

VARIABLES input, key, dir, pc, ret, orig, prev_dir

vars == <<input, key, dir, pc, ret, orig, prev_dir>>

(***************************************************************************)
(* Bounds of the model.                                                    *)
(***************************************************************************)
\* longest text enumerated over SampleChars
MaxLen == 2
\* every key of -1..MaxSmallKey is tried (all 26 residues, and one wrap)
MaxSmallKey == 27

(***************************************************************************)
(* i32                                                                     *)
(***************************************************************************)
I32Max == 2147483647
I32Min == -2147483647 - 1

\* a + b in i32, wrapping; a, b are i32 values
wrapping_add(a, b) ==
    IF b > 0 /\ a > I32Max - b THEN ((b - I32Max) + (a - 1)) + I32Min
    ELSE IF b < 0 /\ a < I32Min - b THEN ((b - I32Min) + (a + 1)) + I32Max
    ELSE a + b

\* a - b in i32, wrapping; a, b are i32 values
wrapping_sub(a, b) ==
    IF b < 0 /\ a > I32Max + b THEN ((I32Min - b) + (a - 1)) - I32Max
    ELSE IF b > 0 /\ a < I32Min + b THEN ((I32Max - b) + (a + 1)) - I32Min
    ELSE a - b

\* Rust's a % b on i32 for b > 0: the remainder has the sign of a
rem(a, b) ==
    IF a >= 0 THEN a % b
    ELSE IF a % b = 0 THEN 0 ELSE (a % b) - b

\* `x as usize` for an i32 x: a negative x sign-extends to 2^64 + x, which is
\* represented here by I32Max (any index >= 26 misses the alphabet alike)
as_usize(x) == IF x >= 0 THEN x ELSE I32Max

(***************************************************************************)
(* char: to_lowercase, to_uppercase, is_uppercase on the chars of the      *)
(* model's universe (Unicode's full case mappings)                         *)
(***************************************************************************)
\* char::to_lowercase: an iterator of one or more chars
to_lowercase(c) ==
    IF c \in 65..90 THEN <<c + 32>>          \* 'A'..'Z'
    ELSE IF c = 304 THEN <<105, 775>>        \* U+0130 -> 'i', U+0307
    ELSE IF c = 8490 THEN <<107>>            \* U+212A KELVIN SIGN -> 'k'
    ELSE IF c = 8491 THEN <<229>>            \* U+212B ANGSTROM SIGN -> U+00E5
    ELSE IF c = 1047 THEN <<1079>>           \* U+0417 -> U+0437
    ELSE <<c>>

\* char::is_uppercase
is_uppercase(c) == c \in (65..90) \cup {304, 1047, 8490, 8491}

\* str::to_uppercase of a one-char string
to_uppercase(s) ==
    LET c == s[1] IN
    IF c \in 97..122 THEN <<c - 32>>         \* 'a'..'z'
    ELSE IF c = 223 THEN <<83, 83>>          \* U+00DF -> "SS"
    ELSE IF c = 229 THEN <<197>>
    ELSE IF c = 1079 THEN <<1047>>
    ELSE <<c>>

(***************************************************************************)
(* caesar                                                                  *)
(***************************************************************************)
Mode == {"Encrypt", "Decrypt"}

MAX_KEY == 999999

KeyError == [tag |-> "Err", err |-> "KeyError"]
Ok(s) == [tag |-> "Ok", val |-> s]
\* an unwrap() on None unwinds out of caesar
Panic == [tag |-> "Panic"]

\* let alphabet_pos = ['a', ..., 'z'];  (1-based here, 0-based in the code)
alphabet_pos ==
    << 97,  98,  99, 100, 101,
      102, 103, 104, 105, 106,
      107, 108, 109, 110, 111,
      112, 113, 114, 115, 116,
      117, 118, 119, 120, 121, 122>>

\* alphabet_pos.get(i): Some(letter) for an index of the array, else None
alphabet_pos_get(i) ==
    IF i < Len(alphabet_pos)
    THEN [some |-> TRUE, val |-> alphabet_pos[i + 1]]
    ELSE [some |-> FALSE]

\* the HashMap filled from alphabet_pos.iter().enumerate(): letter -> index
alphabet_dic ==
    [letter \in {alphabet_pos[i] : i \in DOMAIN alphabet_pos} |->
        (CHOOSE i \in DOMAIN alphabet_pos : alphabet_pos[i] = letter) - 1]

\* key_rejected with `>=` written for `>`
key_rejected_off_by_one(k) == k < 0 \/ k >= MAX_KEY

\* the key checks at the head of caesar: TRUE when Err(KeyError) is returned
key_rejected(k) == k < 0 \/ k > MAX_KEY

\* calc_index_forward with the remainder taken of the key alone
calc_index_forward_key_rem(letter_index, k) ==
    LET li == letter_index
        result == wrapping_add(li, rem(k, 26))
    IN as_usize(result)

calc_index_forward(letter_index, k) ==
    LET li == letter_index
        result == rem(wrapping_add(li, k), 26)
    IN as_usize(result)

\* calc_index_backward with one wrap of 26 and no remainder
calc_index_backward_one_wrap(letter_index, k) ==
    LET li == letter_index
        result == wrapping_sub(li, k)
    IN as_usize(IF result < 0 THEN 26 + result ELSE result)

\* calc_index_backward without the correction of a negative remainder
calc_index_backward_no_correction(letter_index, k) ==
    LET li == letter_index
        result == rem(wrapping_sub(li, k), 26)
    IN as_usize(result)

calc_index_backward(letter_index, k) ==
    LET li == letter_index
        result == rem(wrapping_sub(li, k), 26)
    IN as_usize(IF result < 0 THEN 26 + result ELSE result)

\* loop_body without the is_uppercase branch
loop_body_no_uppercase(ic, k, d) ==
    LET ic_lower == to_lowercase(ic)
        first == ic_lower[1]
    IN IF first \in DOMAIN alphabet_dic
       THEN LET index == alphabet_dic[first]
                calc_index == IF d = "Encrypt"
                              THEN calc_index_forward(index, k)
                              ELSE calc_index_backward(index, k)
                got == alphabet_pos_get(calc_index)
            IN IF ~got.some THEN [panic |-> TRUE, push |-> <<>>]
               ELSE [panic |-> FALSE, push |-> <<got.val>>]
       ELSE [panic |-> FALSE, push |-> <<ic>>]

\* loop_body without the `continue` of the is_uppercase branch
loop_body_no_continue(ic, k, d) ==
    LET ic_lower == to_lowercase(ic)
        first == ic_lower[1]
    IN IF first \in DOMAIN alphabet_dic
       THEN LET index == alphabet_dic[first]
                calc_index == IF d = "Encrypt"
                              THEN calc_index_forward(index, k)
                              ELSE calc_index_backward(index, k)
                got == alphabet_pos_get(calc_index)
            IN IF ~got.some THEN [panic |-> TRUE, push |-> <<>>]
               ELSE LET matched_char == <<got.val>>
                    IN IF is_uppercase(ic)
                       THEN [panic |-> FALSE,
                             push |-> to_uppercase(matched_char) \o matched_char]
                       ELSE [panic |-> FALSE, push |-> matched_char]
       ELSE [panic |-> FALSE, push |-> <<ic>>]

\* one iteration of `for ic in input.chars()`: the string pushed to result,
\* or a panic
loop_body(ic, k, d) ==
    LET ic_lower == to_lowercase(ic)
        first == ic_lower[1]
    IN IF first \in DOMAIN alphabet_dic
       THEN LET index == alphabet_dic[first]
                calc_index == IF d = "Encrypt"
                              THEN calc_index_forward(index, k)
                              ELSE calc_index_backward(index, k)
                got == alphabet_pos_get(calc_index)
            IN IF ~got.some THEN [panic |-> TRUE, push |-> <<>>]
               ELSE LET matched_char == <<got.val>>
                    IN IF is_uppercase(ic)
                       THEN [panic |-> FALSE, push |-> to_uppercase(matched_char)]
                       ELSE [panic |-> FALSE, push |-> matched_char]
       ELSE [panic |-> FALSE, push |-> <<ic>>]

\* chars_loop with `break` written for the `continue` of the is_uppercase
\* branch
RECURSIVE chars_loop_break(_, _, _, _, _)
chars_loop_break(in, k, d, i, result) ==
    IF i > Len(in) THEN Ok(result)
    ELSE LET b == loop_body(in[i], k, d)
         IN IF b.panic THEN Panic
            ELSE IF to_lowercase(in[i])[1] \in DOMAIN alphabet_dic /\ is_uppercase(in[i])
                 THEN Ok(result \o b.push)
                 ELSE chars_loop_break(in, k, d, i + 1, result \o b.push)

\* the for loop from the i-th char on, result being the string built so far
RECURSIVE chars_loop(_, _, _, _, _)
chars_loop(in, k, d, i, result) ==
    IF i > Len(in) THEN Ok(result)
    ELSE LET b == loop_body(in[i], k, d)
         IN IF b.panic THEN Panic
            ELSE chars_loop(in, k, d, i + 1, result \o b.push)

caesar(in, k, d) ==
    IF key_rejected(k) THEN KeyError
    ELSE chars_loop(in, k, d, 1, <<>>)

(***************************************************************************)
(* Inputs                                                                  *)
(***************************************************************************)
\* the universe of chars: the ASCII letters, the chars next to their ranges,
\* line feed, space, '(', ')', '1', U+00DF, U+00E5, U+0130, U+0307, U+0417,
\* U+0437, U+212A, U+212B, U+1F600
Chars ==
    (65..90) \cup (97..122) \cup {64, 91, 96, 123}
    \cup {10, 32, 40, 41, 49, 223, 229, 304, 775, 1047, 1079, 8490, 8491, 128512}

\* 'a', 'z', 'B', ' ', U+0130, U+212A
SampleChars == {97, 122, 66, 32, 304, 8490}

RECURSIVE SeqsUpTo(_, _)
SeqsUpTo(S, n) ==
    IF n = 0 THEN {<<>>}
    ELSE LET shorter == SeqsUpTo(S, n - 1)
         IN shorter \cup {Append(s, c) : s \in {t \in shorter : Len(t) = n - 1}, c \in S}

\* the inputs of the tests of caesar.rs
TestInputs ==
    { <<65, 66, 67>>,                          \* "ABC"
      <<66, 67, 68>>,                          \* "BCD"
      <<40, 65, 66, 67, 41, 68>>,              \* "(ABC)D"
      <<65, 32, 66, 32, 67>>,                  \* "A B C"
      <<65, 32, 10, 32, 66, 32, 10, 32, 67>>,  \* "A \n B \n C"
      <<97, 98, 99>>,                          \* "abc"
      <<1047, 97, 1047>>,                      \* U+0417 'a' U+0417
      <<88, 89>>,                              \* "XY"
      <<66, 67>> }                             \* "BC"

Inputs == TestInputs \cup {<<c>> : c \in Chars} \cup SeqsUpTo(SampleChars, MaxLen)

Keys ==
    (-1..MaxSmallKey) \cup {52, 54, 55, MAX_KEY - 13, MAX_KEY, MAX_KEY + 1, I32Min, I32Max}

NoRet == [tag |-> "None"]

(***************************************************************************)
(* The state machine: a caller picks the arguments, calls caesar, and may  *)
(* call it once more on the string it got back, with the same key.         *)
(***************************************************************************)
Init ==
    /\ input \in Inputs
    /\ key \in Keys
    /\ dir \in Mode
    /\ pc = "ready"
    /\ ret = NoRet
    /\ orig = <<>>
    /\ prev_dir = "none"

Call ==
    /\ pc = "ready"
    /\ ret' = caesar(input, key, dir)
    /\ pc' = "returned"
    /\ UNCHANGED <<input, key, dir, orig, prev_dir>>

Reapply ==
    /\ pc = "returned"
    /\ ret.tag = "Ok"
    /\ prev_dir = "none"
    /\ \E d \in Mode : dir' = d
    /\ input' = ret.val
    /\ orig' = input
    /\ prev_dir' = dir
    /\ ret' = NoRet
    /\ pc' = "ready"
    /\ UNCHANGED key

Next == Call \/ Reapply

Spec == Init /\ [][Next]_vars

(***************************************************************************)
(* Properties                                                              *)
(***************************************************************************)
\* the key range as the specification words it
ValidKey == key \in 0..999999

Returned == pc = "returned"

\* char::is_lowercase on the chars of the universe
is_lowercase(c) == c \in (97..122) \cup {223, 229, 1079}

\* the position a letter at position p is shifted to, by floored modulo
RefShift(p) == IF dir = "Encrypt" THEN (p + key) % 26 ELSE (p - key) % 26

\* p + k and p - k are representable in i32
FitsAdd(p, k) == IF k >= 0 THEN p <= I32Max - k ELSE p >= I32Min - k
FitsSub(p, k) == IF k >= 0 THEN p >= I32Min + k ELSE p <= I32Max + k

\* C1: round trip. If a text was encrypted with a key of 0..999999 and the
\* result was decrypted with the same key, the second call returns Ok with
\* the original text.
C1_RoundTrip ==
    (Returned /\ ValidKey /\ prev_dir = "Encrypt" /\ dir = "Decrypt")
        => ret = [tag |-> "Ok", val |-> orig]

\* C2: a returned call is Err(KeyError) exactly when key < 0 or
\* key > 999999; it never panics, and the error carries no output string.
C2_KeyErrorIff ==
    Returned =>
        /\ ret.tag \in {"Ok", "Err"}
        /\ (ret.tag = "Err") <=> (key < 0 \/ key > 999999)
        /\ (ret.tag = "Err") => ("val" \notin DOMAIN ret /\ ret.err = "KeyError")

C2_Witness ==
    /\ Returned /\ input = <<65, 66, 67>> /\ key = 1000000
    /\ ret.tag = "Err"

\* C3: for a valid key, an ASCII letter at alphabet position p is replaced
\* by the letter at position (p + key) mod 26 (Encrypt) or (p - key) mod 26
\* taken in 0..25 (Decrypt), in the same case.
C3_ShiftResult ==
    (Returned /\ ValidKey) =>
        /\ ret.tag = "Ok"
        /\ \A i \in DOMAIN input :
            /\ input[i] \in 97..122 =>
                (i \in DOMAIN ret.val /\ ret.val[i] = 97 + RefShift(input[i] - 97))
            /\ input[i] \in 65..90 =>
                (i \in DOMAIN ret.val /\ ret.val[i] = 65 + RefShift(input[i] - 65))

C3_Witness ==
    /\ Returned /\ input = <<65, 66, 67>> /\ key = 999999 /\ dir = "Encrypt"
    /\ ret = [tag |-> "Ok", val |-> <<78, 79, 80>>]

\* C4: for a valid key, every input char whose lowercase form is not one of
\* the letters a..z is in the output unchanged, at the same position.
C4_PassThrough ==
    (Returned /\ ValidKey) =>
        /\ ret.tag = "Ok"
        /\ \A i \in DOMAIN input :
            to_lowercase(input[i]) \notin {<<l>> : l \in 97..122} =>
                (i \in DOMAIN ret.val /\ ret.val[i] = input[i])

\* C5: for a valid key that is a multiple of 26, the output is the input.
C5_IdentityAtMultiplesOf26 ==
    (Returned /\ ValidKey /\ key % 26 = 0)
        => ret = [tag |-> "Ok", val |-> input]

\* C6: for a valid key, the result is the result for the key reduced mod 26.
C6_Periodicity ==
    (Returned /\ ValidKey) => ret = caesar(input, key % 26, dir)

C6_Witness ==
    /\ Returned /\ input = <<65, 66, 67>> /\ key = 55 /\ dir = "Decrypt"
    /\ ret = [tag |-> "Ok", val |-> <<88, 89, 90>>]

\* C7: for a valid key, an uppercase input char yields an uppercase char
\* and a lowercase input char a lowercase char, at the same position.
C7_CasePreserved ==
    (Returned /\ ValidKey) =>
        /\ ret.tag = "Ok"
        /\ \A i \in DOMAIN input :
            /\ is_uppercase(input[i]) =>
                (i \in DOMAIN ret.val /\ is_uppercase(ret.val[i]))
            /\ is_lowercase(input[i]) =>
                (i \in DOMAIN ret.val /\ is_lowercase(ret.val[i]))

C7_Witness ==
    /\ Returned /\ input = <<66, 97>> /\ key = 1 /\ dir = "Encrypt"
    /\ ret = [tag |-> "Ok", val |-> <<67, 98>>]

\* C8: for a valid key, the output has as many chars as the input.
C8_LengthPreserved ==
    (Returned /\ ValidKey) => (ret.tag = "Ok" /\ Len(ret.val) = Len(input))

C8_Witness ==
    /\ Returned /\ input = <<304, 32>> /\ key = 1 /\ dir = "Encrypt"
    /\ ret.tag = "Ok" /\ Len(ret.val) = 2

\* C9: for a valid key and every letter position p of 0..25, p + key and
\* p - key fit in an i32, and both index computations give an index of
\* 0..25, which the alphabet lookup finds.
C9_IndexInRange ==
    (Returned /\ ValidKey) =>
        \A p \in 0..25 :
            /\ FitsAdd(p, key) /\ FitsSub(p, key)
            /\ calc_index_forward(p, key) \in 0..25
            /\ calc_index_backward(p, key) \in 0..25
            /\ alphabet_pos_get(calc_index_forward(p, key)).some
            /\ alphabet_pos_get(calc_index_backward(p, key)).some

C9_Witness ==
    /\ Returned /\ input = <<97>> /\ key = 999999 /\ dir = "Decrypt"
    /\ ret = [tag |-> "Ok", val |-> <<110>>]

\* C10: for a valid key, the result for a text is the concatenation of the
\* results for any prefix of it and the rest, and the empty text gives the
\* empty text.
C10_CharWise ==
    (Returned /\ ValidKey) =>
        /\ caesar(<<>>, key, dir) = [tag |-> "Ok", val |-> <<>>]
        /\ \A n \in 0..Len(input) :
            LET s == caesar(SubSeq(input, 1, n), key, dir)
                t == caesar(SubSeq(input, n + 1, Len(input)), key, dir)
            IN /\ s.tag = "Ok" /\ t.tag = "Ok"
               /\ ret = [tag |-> "Ok", val |-> s.val \o t.val]

C10_Witness ==
    /\ Returned /\ input = <<40, 65, 66, 67, 41, 68>> /\ key = 1 /\ dir = "Encrypt"
    /\ ret = [tag |-> "Ok", val |-> <<40, 66, 67, 68, 41, 69>>]

====
